---- MODULE Spec2Model ----
(***************************************************************************)
(* Model of the conversion pipeline of doc-converter-oci-serverless:       *)
(* pkg/converter (Converter.Convert, its worker goroutines, processURL,    *)
(* isPublicURL) and the consumer of its two channels.                      *)
(***************************************************************************)
EXTENDS Integers, Sequences, FiniteSets, TLC

(* ------------------------------ bounds --------------------------------- *)
\* longest URL list handed to Convert
MaxUrls == 2
\* longest address list a name resolution returns in the validator check
MaxIPs == 2

(* -------------------------- program constants -------------------------- *)
maxBodySize == 5 * 1024 * 1024
StatusOK == 200

(* ------------------------------ inputs --------------------------------- *)
URLs == {"https://a.example/docs/", "https://b.example/x"}

Workers == 1..MaxUrls

\* IPv4 addresses as 4-tuples of octets
PublicIP == <<8, 8, 8, 8>>
LoopbackIP == <<127, 0, 0, 1>>
PrivateIP10 == <<10, 1, 2, 3>>
PrivateIP172 == <<172, 16, 0, 1>>
PublicIP172 == <<172, 32, 0, 1>>
PrivateIP192 == <<192, 168, 1, 1>>
LinkLocalIP == <<169, 254, 169, 254>>
LinkLocalMcastIP == <<224, 0, 0, 1>>
McastIP == <<224, 0, 1, 1>>

SampleIPs ==
  {PublicIP, LoopbackIP, PrivateIP10, PrivateIP172, PublicIP172,
   PrivateIP192, LinkLocalIP, LinkLocalMcastIP, McastIP}

\* net.IP predicates used by the validator (IPv4 ranges)
IsLoopback(ip) == ip[1] = 127
IsLinkLocalMulticast(ip) == ip[1] = 224 /\ ip[2] = 0 /\ ip[3] = 0
IsLinkLocalUnicast(ip) == ip[1] = 169 /\ ip[2] = 254
IsPrivate(ip) ==
  \/ ip[1] = 10
  \/ ip[1] = 172 /\ ip[2] >= 16 /\ ip[2] <= 31
  \/ ip[1] = 192 /\ ip[2] = 168

\* mutation: the private ranges are not looked at
NonPublicNoPrivate(ip) ==
  IsLoopback(ip) \/ IsLinkLocalMulticast(ip) \/ IsLinkLocalUnicast(ip)

NonPublic(ip) ==
  IsLoopback(ip) \/ IsLinkLocalMulticast(ip) \/ IsLinkLocalUnicast(ip) \/ IsPrivate(ip)

\* What url.Parse and net.LookupIP give for a URL: a parse error, a lookup
\* error, or a non-empty list of addresses.
Resolution(pe, le, ips) == [parseErr |-> pe, lookupErr |-> le, ips |-> ips]
ParseFailure == Resolution(TRUE, FALSE, <<>>)
LookupFailure == Resolution(FALSE, TRUE, <<>>)
Resolved(ips) == Resolution(FALSE, FALSE, ips)

IPLists(n) == UNION {[1..k -> SampleIPs] : k \in 1..n}

\* every resolution the validator is checked on
AllResolutions == {ParseFailure, LookupFailure} \cup {Resolved(l) : l \in IPLists(MaxIPs)}

\* the resolutions the hosts of a run answer with
RunResolutions ==
  {LookupFailure, Resolved(<<PublicIP>>), Resolved(<<PublicIP, LoopbackIP>>)}

(* ----------------------------- validator ------------------------------- *)
Verdict(ok, err) == [ok |-> ok, err |-> err]

\* mutation: only the first resolved address is looked at
RECURSIVE ScanFirstOnly(_, _)
ScanFirstOnly(ips, k) ==
  IF k > Len(ips) THEN Verdict(TRUE, FALSE)
  ELSE Verdict(~NonPublic(ips[k]), FALSE)

\* the loop over ips: first non-public address returns (false, nil)
RECURSIVE ScanIPs(_, _)
ScanIPs(ips, k) ==
  IF k > Len(ips) THEN Verdict(TRUE, FALSE)
  ELSE IF NonPublic(ips[k]) THEN Verdict(FALSE, FALSE)
  ELSE ScanIPs(ips, k + 1)

isPublicURL(r) ==
  IF r.parseErr THEN Verdict(FALSE, TRUE)
  ELSE IF r.lookupErr THEN Verdict(FALSE, TRUE)
  ELSE ScanIPs(r.ips, 1)

\* the build with the integration tag links this one instead
isPublicURLMock(r) == Verdict(TRUE, FALSE)

(* ------------------------------ strings -------------------------------- *)
\* Go strings as TLA+ strings: the i-th character, and the rest from the i-th
Ch(s, i) == SubSeq(s, i, i)
From(s, i) == SubSeq(s, i, Len(s))

UpperAlpha == "ABCDEFGHIJKLMNOPQRSTUVWXYZ"
LowerAlpha == "abcdefghijklmnopqrstuvwxyz"
FilenameChars == "abcdefghijklmnopqrstuvwxyz0123456789_"

Contains(s, c) == \E k \in 1..Len(s) : Ch(s, k) = c

\* strings.ToLower on one character
ToLowerCh(c) ==
  IF Contains(UpperAlpha, c)
  THEN Ch(LowerAlpha, CHOOSE k \in 1..Len(UpperAlpha) : Ch(UpperAlpha, k) = c)
  ELSE c

\* the pieces f[lo..hi] of a sequence of strings, put end to end
RECURSIVE Concat(_, _, _)
Concat(f, lo, hi) ==
  IF lo > hi THEN ""
  ELSE IF lo = hi THEN f[lo]
  ELSE Concat(f, lo, (lo + hi) \div 2) \o Concat(f, (lo + hi) \div 2 + 1, hi)

Join(f) == Concat(f, 1, Len(f))

ToLower(s) == Join([i \in 1..Len(s) |-> ToLowerCh(Ch(s, i))])

\* strings.ReplaceAll(s, old, new) for a one-character old
ReplaceAll(s, old, new) ==
  Join([i \in 1..Len(s) |-> IF Ch(s, i) = old THEN new ELSE Ch(s, i)])

\* mutation: the character class also lets '.' and '-' through
KeepFilenameCharsAndDots(s) ==
  Join([i \in 1..Len(s) |->
          IF Contains(FilenameChars \o ".-", Ch(s, i)) THEN Ch(s, i) ELSE ""])

\* regexp "[^a-z0-9_]+" replaced by "": every character outside the class goes
KeepFilenameChars(s) ==
  Join([i \in 1..Len(s) |-> IF Contains(FilenameChars, Ch(s, i)) THEN Ch(s, i) ELSE ""])

SanitizeFilename(s) == KeepFilenameChars(ReplaceAll(ToLower(s), " ", "_"))

\* unicode.IsSpace on the characters used here
IsSpace(c) == c \in {" ", "\t", "\n", "\r"}

\* the positions of s that hold something else than white space
Inked(s) == {i \in 1..Len(s) : ~IsSpace(Ch(s, i))}

TrimLeft(s) ==
  IF Inked(s) = {} THEN ""
  ELSE From(s, CHOOSE i \in Inked(s) : \A j \in Inked(s) : i <= j)

TrimRight(s) ==
  IF Inked(s) = {} THEN ""
  ELSE SubSeq(s, 1, CHOOSE i \in Inked(s) : \A j \in Inked(s) : i >= j)

TrimSpace(s) == TrimRight(TrimLeft(s))

\* strings.Split(s, sep) for a one-character sep: the pieces between one
\* occurrence of sep (or the start) and the next (or the end)
Split(s, sep) ==
  LET at == {i \in 1..Len(s) : Ch(s, i) = sep}
      n == Cardinality(at)
      Cut(k) == IF k = 0 THEN 0
                ELSE IF k = n + 1 THEN Len(s) + 1
                ELSE CHOOSE i \in at : Cardinality({j \in at : j < i}) = k - 1
  IN [k \in 1..(n + 1) |-> SubSeq(s, Cut(k - 1) + 1, Cut(k) - 1)]

\* strings.Trim(s, cutset) for a one-character cutset
Trim(s, c) ==
  LET kept == {i \in 1..Len(s) : Ch(s, i) # c}
  IN IF kept = {} THEN ""
     ELSE SubSeq(s, CHOOSE i \in kept : \A j \in kept : i <= j,
                    CHOOSE i \in kept : \A j \in kept : i >= j)

HasSuffix(s, suffix) ==
  Len(s) >= Len(suffix) /\ SubSeq(s, Len(s) - Len(suffix) + 1, Len(s)) = suffix

(* ------------------------------ filenames ------------------------------- *)
\* the fallback of getSanitizedTitle: last piece of the URL split at "/", the
\* one before it when that is empty, "untitled" when both are
FallbackTitle(parts) ==
  LET last == parts[Len(parts)]
      t == IF last = "" /\ Len(parts) > 1 THEN parts[Len(parts) - 1] ELSE last
  IN IF t = "" THEN "untitled" ELSE t

\* title is the text of the document's <title> ("" when it has none)
getSanitizedTitle(title, fallbackURL) ==
  IF TrimSpace(title) # "" THEN SanitizeFilename(TrimSpace(title))
  ELSE SanitizeFilename(FallbackTitle(Split(fallbackURL, "/")))

(* ------------------------------ markdown -------------------------------- *)
\* longest list of top-level nodes of a fragment handed to the renderer
MaxBlocks == 2

\* a parsed HTML node: an element with its children, or a "#text" node
Node(tag, hasHref, href, text, kids) ==
  [tag |-> tag, hasHref |-> hasHref, href |-> href, text |-> text, kids |-> kids]
Txt(t) == Node("#text", FALSE, "", t, <<>>)
El(tag, kids) == Node(tag, FALSE, "", "", kids)
Anchor(href, kids) == Node("a", TRUE, href, "", kids)

\* goquery Selection.Text(): the text nodes below a node, concatenated
RECURSIVE NodeText(_)
RECURSIVE ForestText(_)
NodeText(n) == IF n.tag = "#text" THEN n.text ELSE ForestText(n.kids)
ForestText(ns) == IF ns = <<>> THEN "" ELSE NodeText(Head(ns)) \o ForestText(Tail(ns))

\* the descendants of a selection in document order
RECURSIVE Descendants(_)
Descendants(ns) ==
  IF ns = <<>> THEN <<>>
  ELSE <<Head(ns)>> \o Descendants(Head(ns).kids) \o Descendants(Tail(ns))

RenderedTags == {"h1", "h2", "h3", "h4", "h5", "h6", "p", "a"}

RECURSIVE Hashes(_)
Hashes(n) == IF n = 0 THEN "" ELSE "#" \o Hashes(n - 1)

HeadingLevel(tag) ==
  CASE tag = "h1" -> 1 [] tag = "h2" -> 2 [] tag = "h3" -> 3
    [] tag = "h4" -> 4 [] tag = "h5" -> 5 [] tag = "h6" -> 6

\* the body of the Each callback: what one matched element writes
RenderElement(n) ==
  LET text == TrimSpace(NodeText(n))
  IN IF n.tag \notin RenderedTags \/ text = "" THEN ""
     ELSE IF n.tag = "p" THEN text \o "\n\n"
     ELSE IF n.tag = "a"
          THEN (IF n.hasHref THEN "[" \o text \o "](" \o n.href \o ")" ELSE text)
     ELSE Hashes(HeadingLevel(n.tag)) \o " " \o text \o "\n\n"

RECURSIVE RenderAll(_)
RenderAll(ns) == IF ns = <<>> THEN "" ELSE RenderElement(Head(ns)) \o RenderAll(Tail(ns))

\* mutation: the builder's text is returned as it is
CollapseNothing(s) == s

\* regexp "\n\n+" replaced by "\n\n": of a run of newlines the first two stay
CollapseNewlines(s) ==
  Join([i \in 1..Len(s) |->
          IF i >= 3 /\ SubSeq(s, i - 2, i) = "\n\n\n" THEN "" ELSE Ch(s, i)])

\* body is the list of nodes under <body> of the parsed fragment
htmlToMarkdown(body) ==
  LET built == RenderAll(Descendants(body))
      out == IF built = "" THEN TrimSpace(ForestText(body)) ELSE built
  IN TrimSpace(CollapseNewlines(out))

\* top-level nodes the renderer is checked on
LinkX == Anchor("https://x", <<Txt("link")>>)
Blocks ==
  {El("h1", <<Txt("Title")>>),
   El("p", <<Txt("Body "), LinkX>>),
   El("p", <<Txt("Body")>>),
   El("p", <<Txt("a\n\n\nb")>>),
   El("p", <<Txt(" \n")>>),
   El("h2", <<LinkX, Txt(" more")>>),
   LinkX,
   Node("a", FALSE, "", "", <<Txt("bare")>>),
   El("div", <<El("p", <<Txt("in div")>>)>>),
   El("span", <<Txt("\n\n\nplain\n")>>),
   Txt("text\n\n\n\ntail ")}

Fragments == UNION {[1..k -> Blocks] : k \in 0..MaxBlocks}

(* ------------------------------ records -------------------------------- *)
\* the error text of a Result: its kind, and the URL and status code the
\* message names ("" and 0 when the message names none)
Err(kind, u, status) == [kind |-> kind, url |-> u, status |-> status]
NoError == Err("", "", 0)

\* the bytes of a composed document: the source it was fetched from and the
\* worker that stamped it (retrieved_at differs from worker to worker)
Doc(u, i) == [source |-> u, writer |-> i]
NoContent == Doc("", 0)

\* Result; w is the goroutine that built it
Result(i, u, fn, c, e, ok) ==
  [w |-> i, URL |-> u, FileName |-> fn, Content |-> c, Error |-> e, IsSuccess |-> ok]
NoResult == Result(0, "", "", NoContent, NoError, FALSE)
\* mutation: a failure that carries no error message
FailResultNoError(i, u, e) == Result(i, u, "", NoContent, NoError, FALSE)

\* Result{URL: u, Error: ..., IsSuccess: false}
FailResult(i, u, e) == Result(i, u, "", NoContent, e, FALSE)

\* Summary, and whether it has been built and sent
MakeSummary(total, ok, failed, fu, st) ==
  [TotalURLs |-> total, Successful |-> ok, Failed |-> failed, FailedURLs |-> fu,
   state |-> st]
NoSummary == MakeSummary(0, 0, 0, <<>>, "none")

\* an HTTP response: transport error, status code, body length in bytes,
\* whether the selector matches an element of the body
Response(e, st, n, m) == [err |-> e, status |-> st, size |-> n, match |-> m]
NetError == Response(TRUE, 0, 0, FALSE)
Statuses == {StatusOK, 404}
BodySizes == {maxBodySize, maxBodySize + 1}
Responses ==
  {NetError} \cup
  {Response(FALSE, st, n, m) : st \in Statuses, n \in BodySizes, m \in BOOLEAN}

\* the <title> texts the documents of a run carry ("": no title)
Titles == {"", "Docs"}

\* the document at the first URL has no title, the one at the second may
TitlesAt(u) == IF u = "https://a.example/docs/" THEN {""} ELSE Titles

\* filename := c.getSanitizedTitle(doc, u) + ".md", for every title and URL of a run
FileNameTable == [t \in Titles |-> [u \in URLs |-> getSanitizedTitle(t, u) \o ".md"]]
FileNameFor(t, u) == FileNameTable[t][u]

\* filename for a document without a title
FileNameOf(u) == FileNameFor("", u)
FileNames == {FileNameFor(t, u) : t \in Titles, u \in URLs}

\* what a worker has seen: the resolution the validator got, the status of
\* each GET it issued (0 for a transport error), the stages it ran, and the
\* <title> of the document its filename was derived from
History(r, g) == [resolved |-> r, gets |-> g, stages |-> <<>>, title |-> "", dials |-> <<>>]
NoResolution == Resolution(FALSE, FALSE, <<>>)
NoHistory == History(NoResolution, <<>>)

\* the values a worker read from the shared counters for its increment
Load(ok, err, fu) == [ok |-> ok, err |-> err, fu |-> fu]
NoLoad == Load(0, 0, <<>>)

\* a call of a pure function under check
Call(fn, arg, ret, done) == [fn |-> fn, arg |-> arg, ret |-> ret, done |-> done]
NoCall == Call("", NoResolution, Verdict(FALSE, FALSE), TRUE)

(* ------------------------------- state --------------------------------- *)
VARIABLES
  integration,   \* build tag: the validator is the mock
  net,           \* the network of the run: stable, rebinding, redirecting
  urls,          \* Convert's urls argument
  opc,           \* orchestrator goroutine: spawn, close, summary, closeSummary, done
  next,          \* index of the next url of the range loop
  wg,            \* sync.WaitGroup counter
  mu,            \* sync.Mutex: 0 free, else the worker holding it
  loaded,        \* per worker: the counters as read for successCount++, errorCount++, append
  successCount, errorCount, failedURLs,
  pc,            \* worker goroutines: idle, validate, fetch, meta, write, lock, crit, send, exit, done
  pending,       \* the Result a worker is about to send
  hist,          \* per worker History
  files,         \* OutputDir: filename -> content
  resultsClosed, summaryClosed,
  cpc,           \* consumer: drain, await, done
  received,      \* Results received from resultsChan, in order
  summary,       \* the Summary value
  call,          \* pure function under check
  hpc,           \* process-job handler: off, loop, running, returned
  event,         \* the messages of the trigger event
  mi,            \* index of the message the handler's loop is at
  dirs,          \* output directories created by NewConverterForJob
  log,           \* what the handler did with each message, in order
  runMsg         \* index of the message Convert was last called for

vars ==
  <<integration, net, urls, opc, next, wg, mu, loaded, successCount, errorCount, failedURLs,
    pc, pending, hist, files, resultsClosed, summaryClosed, cpc, received,
    summary, call, hpc, event, mi, dirs, log, runMsg>>

orchVars == <<opc, next, wg, resultsClosed, summaryClosed, summary>>
counterVars == <<successCount, errorCount, failedURLs>>
consumerVars == <<cpc, received>>
handlerVars == <<hpc, event, mi, dirs, log, runMsg>>
constVars == <<integration, net, urls, call, handlerVars>>

UrlLists == UNION {[1..k -> URLs] : k \in 0..MaxUrls}

\* no handler: Convert is called directly
NoHandler ==
  /\ hpc = "off"
  /\ event = <<>>
  /\ mi = 0
  /\ dirs = {}
  /\ log = <<>>
  /\ runMsg = 0

\* the state Convert starts its goroutine in (o = "spawn"), or no run yet
RunState(o) ==
  /\ opc = o
  /\ next = 1
  /\ wg = 0
  /\ mu = 0
  /\ loaded = [i \in Workers |-> NoLoad]
  /\ successCount = 0
  /\ errorCount = 0
  /\ failedURLs = <<>>
  /\ pc = [i \in Workers |-> "idle"]
  /\ pending = [i \in Workers |-> NoResult]
  /\ hist = [i \in Workers |-> NoHistory]
  /\ files = [f \in FileNames |-> NoContent]
  /\ resultsClosed = FALSE
  /\ summaryClosed = FALSE
  /\ cpc = "drain"
  /\ received = <<>>
  /\ summary = NoSummary

IdleState == RunState("spawn")

\* Convert has been called: channels made, orchestrator goroutine started
Init ==
  /\ integration \in BOOLEAN
  /\ net = "stable"
  /\ urls \in UrlLists
  /\ call = NoCall
  /\ NoHandler
  /\ IdleState

(* ---------------------------- orchestrator ----------------------------- *)
\* for _, u := range urls { wg.Add(1); go func(u) {...}(u) }
Spawn ==
  /\ opc = "spawn"
  /\ next <= Len(urls)
  /\ wg' = wg + 1
  /\ pc' = [pc EXCEPT ![next] = "validate"]
  /\ next' = next + 1
  /\ UNCHANGED <<opc, mu, loaded, counterVars, pending, hist, files, resultsClosed,
                 summaryClosed, consumerVars, summary, constVars>>

\* mutation: the orchestrator does not wait for the workers
WaitReadyNoWait(n) == TRUE

\* end of the range loop, then wg.Wait()
WaitReady(n) == n = 0

Wait ==
  /\ opc = "spawn"
  /\ next > Len(urls)
  /\ WaitReady(wg)
  /\ opc' = "close"
  /\ UNCHANGED <<next, wg, mu, loaded, counterVars, pc, pending, hist, files,
                 resultsClosed, summaryClosed, consumerVars, summary, constVars>>

\* close(resultsChan); summary := Summary{...}
CloseResults ==
  /\ opc = "close"
  /\ resultsClosed' = TRUE
  /\ summary' = MakeSummary(Len(urls), successCount, errorCount, failedURLs, "built")
  /\ opc' = "summary"
  /\ UNCHANGED <<next, wg, mu, loaded, counterVars, pc, pending, hist, files,
                 summaryClosed, consumerVars, constVars>>

\* summaryChan <- summary: unbuffered, needs the consumer receiving on it
SendSummary ==
  /\ opc = "summary"
  /\ cpc = "await"
  /\ summary' = [summary EXCEPT !.state = "delivered"]
  /\ cpc' = "done"
  /\ opc' = "closeSummary"
  /\ UNCHANGED <<next, wg, mu, loaded, counterVars, pc, pending, hist, files,
                 resultsClosed, summaryClosed, received, constVars>>

\* close(summaryChan)
CloseSummary ==
  /\ opc = "closeSummary"
  /\ summaryClosed' = TRUE
  /\ opc' = "done"
  /\ UNCHANGED <<next, wg, mu, loaded, counterVars, pc, pending, hist, files,
                 resultsClosed, consumerVars, summary, constVars>>

(* ------------------------------- workers ------------------------------- *)
\* mutation: a failure site that returns without counting or sending
FailSilent(i, e) ==
  /\ pc' = [pc EXCEPT ![i] = "exit"]
  /\ UNCHANGED pending

\* mutation: a failure site that ends the process (log.Fatalf for log.Printf)
FailFatal(i, e) ==
  /\ pc' = [j \in Workers |-> "killed"]
  /\ pending' = [pending EXCEPT ![i] = FailResult(i, urls[i], e)]

\* every failure site: the worker leaves its stage with the failed Result it
\* will count and send
Fail(i, e) ==
  /\ pc' = [pc EXCEPT ![i] = "lock"]
  /\ pending' = [pending EXCEPT ![i] = FailResult(i, urls[i], e)]

Validator(r) == IF integration THEN isPublicURLMock(r) ELSE isPublicURL(r)

\* isPublic, err := c.isPublicURL(u)
Validate(i) ==
  /\ pc[i] = "validate"
  /\ \E r \in RunResolutions :
       /\ hist' = [hist EXCEPT ![i].resolved = r, ![i].stages = Append(@, "validate")]
       /\ IF Validator(r).err THEN Fail(i, Err("validation", "", 0))
          ELSE IF ~Validator(r).ok THEN Fail(i, Err("ssrf", "", 0))
          ELSE /\ pc' = [pc EXCEPT ![i] = "fetch"]
               /\ UNCHANGED pending
  /\ UNCHANGED <<orchVars, mu, loaded, counterVars, files, consumerVars, constVars>>

\* mutation: a body of exactly maxBodySize bytes is refused as well
processURLCapInclusive(u, resp) ==
  IF resp.err THEN Err("fetch", u, 0)
  ELSE IF resp.status # StatusOK THEN Err("status", u, resp.status)
  ELSE IF resp.size >= maxBodySize THEN Err("read", u, 0)
  ELSE IF ~resp.match THEN Err("selector", u, 0)
  ELSE NoError

\* the error processURL returns for a response (NoError: content extracted)
processURL(u, resp) ==
  IF resp.err THEN Err("fetch", u, 0)
  ELSE IF resp.status # StatusOK THEN Err("status", u, resp.status)
  ELSE IF resp.size > maxBodySize THEN Err("read", u, 0)
  ELSE IF ~resp.match THEN Err("selector", u, 0)
  ELSE NoError

\* addresses a name may resolve to, or a redirect may lead to, at fetch time
DialIPs == {PublicIP, LoopbackIP, LinkLocalIP, PrivateIP10}

\* the addresses one c.Client.Get(u) of worker i connects to, in order.
\* The client resolves the host again for itself: in a stable network it
\* gets what the validator got and the first address answers; in a
\* rebinding one it may get any address. The client has no CheckRedirect,
\* so in a redirecting network it may go on to a host at any address.
Dials(i) ==
  LET ips == hist[i].resolved.ips
      looked == IF net = "rebinding" THEN {<<a>> : a \in DialIPs}
                ELSE IF ips = <<>> THEN {<<>>}
                ELSE {<<ips[1]>>}
  IN IF net = "redirecting"
     THEN looked \cup {l \o <<a>> : l \in looked, a \in DialIPs}
     ELSE looked

\* mutation: a GET that failed in transport is issued once more
FetchWithRetry(i) ==
  /\ pc[i] = "fetch"
  /\ \E resp \in Responses, d \in Dials(i) :
       /\ hist' = [hist EXCEPT ![i].gets = Append(@, resp.status),
                               ![i].stages = Append(@, "content"),
                               ![i].dials = @ \o d]
       /\ IF resp.err /\ hist[i].gets = <<>>
          THEN UNCHANGED <<pc, pending>>
          ELSE IF processURL(urls[i], resp) # NoError
          THEN Fail(i, processURL(urls[i], resp))
          ELSE /\ pc' = [pc EXCEPT ![i] = "meta"]
               /\ UNCHANGED pending
  /\ UNCHANGED <<orchVars, mu, loaded, counterVars, files, consumerVars, constVars>>

\* content, err := c.processURL(u, selector)
Fetch(i) ==
  /\ pc[i] = "fetch"
  /\ \E resp \in Responses, d \in Dials(i) :
       /\ hist' = [hist EXCEPT ![i].gets = Append(@, resp.status),
                               ![i].stages = Append(@, "content"),
                               ![i].dials = @ \o d]
       /\ IF processURL(urls[i], resp) # NoError
          THEN Fail(i, processURL(urls[i], resp))
          ELSE /\ pc' = [pc EXCEPT ![i] = "meta"]
               /\ UNCHANGED pending
  /\ UNCHANGED <<orchVars, mu, loaded, counterVars, files, consumerVars, constVars>>

\* the second GET and the parse of its body, for title and metadata
metaFetch(resp) ==
  IF resp.err THEN Err("metafetch", "", 0)
  ELSE IF resp.size > maxBodySize THEN Err("metaparse", "", 0)
  ELSE NoError

\* a file os.WriteFile opened and truncated but did not finish writing
Truncated(u) == Doc(u, 0)

\* mutation: the output file is created before the front matter is
\* serialized, so a failing yaml.Marshal leaves an empty file behind
MetaCreatesFile(i) ==
  /\ pc[i] = "meta"
  /\ \E resp \in Responses, yamlOk \in BOOLEAN, t \in TitlesAt(urls[i]), d \in Dials(i) :
       LET seen == [hist EXCEPT ![i].gets = Append(@, resp.status),
                                ![i].stages = Append(@, "metadata"),
                                ![i].dials = @ \o d]
       IN IF metaFetch(resp) # NoError
          THEN hist' = seen /\ Fail(i, metaFetch(resp)) /\ UNCHANGED files
          ELSE IF ~yamlOk
          THEN /\ hist' = seen
               /\ Fail(i, Err("yaml", "", 0))
               /\ files' = [files EXCEPT ![FileNameFor(t, urls[i])] = Truncated(urls[i])]
          ELSE /\ hist' = [seen EXCEPT ![i].title = t]
               /\ pc' = [pc EXCEPT ![i] = "write"]
               /\ UNCHANGED <<pending, files>>
  /\ UNCHANGED <<orchVars, mu, loaded, counterVars, consumerVars, constVars>>

\* resp, err := c.Client.Get(u) ... yaml.Marshal(pageMetadata) ... filename
Meta(i) ==
  /\ pc[i] = "meta"
  /\ \E resp \in Responses, yamlOk \in BOOLEAN, t \in TitlesAt(urls[i]), d \in Dials(i) :
       LET seen == [hist EXCEPT ![i].gets = Append(@, resp.status),
                                ![i].stages = Append(@, "metadata"),
                                ![i].dials = @ \o d]
       IN IF metaFetch(resp) # NoError
          THEN hist' = seen /\ Fail(i, metaFetch(resp))
          ELSE IF ~yamlOk
          THEN hist' = seen /\ Fail(i, Err("yaml", "", 0))
          ELSE /\ hist' = [seen EXCEPT ![i].title = t]
               /\ pc' = [pc EXCEPT ![i] = "write"]
               /\ UNCHANGED pending
  /\ UNCHANGED <<orchVars, mu, loaded, counterVars, files, consumerVars, constVars>>

\* mutation: from the second job of an event on, the filename carries the
\* time of retrieval
WriteStamped(i) ==
  /\ pc[i] = "write"
  /\ LET name == FileNameFor(hist[i].title, urls[i])
         fn == IF runMsg > 1 THEN "t1_" \o name ELSE name
         doc == Doc(urls[i], i)
     IN \/ /\ files' = [f \in FileNames |-> IF f = fn THEN doc ELSE files[f]]
           /\ pc' = [pc EXCEPT ![i] = "lock"]
           /\ pending' = [pending EXCEPT ![i] = Result(i, urls[i], fn, doc, NoError, TRUE)]
        \/ /\ files' \in {files, [f \in FileNames |->
                                   IF f = fn THEN Truncated(urls[i]) ELSE files[f]]}
           /\ Fail(i, Err("write", "", 0))
  /\ hist' = [hist EXCEPT ![i].stages = Append(@, "write")]
  /\ UNCHANGED <<orchVars, mu, loaded, counterVars, consumerVars, constVars>>

\* mutation: a file that exists already is kept as it is
WriteKeepFirst(i) ==
  /\ pc[i] = "write"
  /\ LET fn == FileNameFor(hist[i].title, urls[i])
         doc == Doc(urls[i], i)
     IN \/ /\ files' = IF files[fn] = NoContent THEN [files EXCEPT ![fn] = doc] ELSE files
           /\ pc' = [pc EXCEPT ![i] = "lock"]
           /\ pending' = [pending EXCEPT ![i] = Result(i, urls[i], fn, doc, NoError, TRUE)]
        \/ /\ files' \in {files, [files EXCEPT ![fn] = Truncated(urls[i])]}
           /\ Fail(i, Err("write", "", 0))
  /\ hist' = [hist EXCEPT ![i].stages = Append(@, "write")]
  /\ UNCHANGED <<orchVars, mu, loaded, counterVars, consumerVars, constVars>>

\* os.WriteFile(filePath, finalContent, 0644)
Write(i) ==
  /\ pc[i] = "write"
  /\ LET fn == FileNameFor(hist[i].title, urls[i])
         doc == Doc(urls[i], i)
     IN \/ /\ files' = [files EXCEPT ![fn] = doc]
           /\ pc' = [pc EXCEPT ![i] = "lock"]
           /\ pending' = [pending EXCEPT ![i] = Result(i, urls[i], fn, doc, NoError, TRUE)]
        \/ /\ files' \in {files, [files EXCEPT ![fn] = Truncated(urls[i])]}
           /\ Fail(i, Err("write", "", 0))
  /\ hist' = [hist EXCEPT ![i].stages = Append(@, "write")]
  /\ UNCHANGED <<orchVars, mu, loaded, counterVars, consumerVars, constVars>>

\* mutation: the lock lets a worker in while another holds it
LockNoExclusion(i) ==
  /\ pc[i] = "lock"
  /\ mu' = i
  /\ loaded' = [loaded EXCEPT ![i] = Load(successCount, errorCount, failedURLs)]
  /\ pc' = [pc EXCEPT ![i] = "crit"]
  /\ UNCHANGED <<orchVars, counterVars, pending, hist, files, consumerVars, constVars>>

\* mu.Lock()
Lock(i) ==
  /\ pc[i] = "lock"
  /\ mu = 0
  /\ mu' = i
  /\ loaded' = [loaded EXCEPT ![i] = Load(successCount, errorCount, failedURLs)]
  /\ pc' = [pc EXCEPT ![i] = "crit"]
  /\ UNCHANGED <<orchVars, counterVars, pending, hist, files, consumerVars, constVars>>

\* mutation: a failure is counted but its URL is not appended
CountNoAppend(i) ==
  /\ pc[i] = "crit"
  /\ IF pending[i].IsSuccess
     THEN /\ successCount' = loaded[i].ok + 1
          /\ UNCHANGED <<errorCount, failedURLs>>
     ELSE /\ errorCount' = loaded[i].err + 1
          /\ UNCHANGED <<successCount, failedURLs>>
  /\ mu' = 0
  /\ loaded' = [loaded EXCEPT ![i] = NoLoad]
  /\ pc' = [pc EXCEPT ![i] = "send"]
  /\ UNCHANGED <<orchVars, pending, hist, files, consumerVars, constVars>>

\* mutation: a write failure is counted as a success
CountWriteFailureAsSuccess(i) ==
  /\ pc[i] = "crit"
  /\ IF pending[i].IsSuccess \/ pending[i].Error.kind = "write"
     THEN /\ successCount' = loaded[i].ok + 1
          /\ UNCHANGED <<errorCount, failedURLs>>
     ELSE /\ errorCount' = loaded[i].err + 1
          /\ failedURLs' = Append(loaded[i].fu, urls[i])
          /\ UNCHANGED successCount
  /\ mu' = 0
  /\ loaded' = [loaded EXCEPT ![i] = NoLoad]
  /\ pc' = [pc EXCEPT ![i] = "send"]
  /\ UNCHANGED <<orchVars, pending, hist, files, consumerVars, constVars>>

\* mutation: a failure site that does not unlock
CountNoUnlock(i) ==
  /\ pc[i] = "crit"
  /\ IF pending[i].IsSuccess
     THEN /\ successCount' = loaded[i].ok + 1
          /\ mu' = 0
          /\ UNCHANGED <<errorCount, failedURLs>>
     ELSE /\ errorCount' = loaded[i].err + 1
          /\ failedURLs' = Append(loaded[i].fu, urls[i])
          /\ mu' = mu
          /\ UNCHANGED successCount
  /\ loaded' = [loaded EXCEPT ![i] = NoLoad]
  /\ pc' = [pc EXCEPT ![i] = "send"]
  /\ UNCHANGED <<orchVars, pending, hist, files, consumerVars, constVars>>

\* successCount++ | errorCount++; failedURLs = append(failedURLs, u); mu.Unlock():
\* each writes back what the worker read, changed
Count(i) ==
  /\ pc[i] = "crit"
  /\ IF pending[i].IsSuccess
     THEN /\ successCount' = loaded[i].ok + 1
          /\ UNCHANGED <<errorCount, failedURLs>>
     ELSE /\ errorCount' = loaded[i].err + 1
          /\ failedURLs' = Append(loaded[i].fu, urls[i])
          /\ UNCHANGED successCount
  /\ mu' = 0
  /\ loaded' = [loaded EXCEPT ![i] = NoLoad]
  /\ pc' = [pc EXCEPT ![i] = "send"]
  /\ UNCHANGED <<orchVars, pending, hist, files, consumerVars, constVars>>

\* mutation: resultsChan is buffered, a send needs no receiver
SendResultBuffered(i) ==
  /\ pc[i] = "send"
  /\ ~resultsClosed
  /\ received' = Append(received, pending[i])
  /\ pc' = [pc EXCEPT ![i] = "exit"]
  /\ UNCHANGED <<orchVars, mu, loaded, counterVars, pending, hist, files, cpc, constVars>>

\* resultsChan <- Result{...}: unbuffered, needs the consumer receiving on it
SendResult(i) ==
  /\ pc[i] = "send"
  /\ cpc = "drain"
  /\ ~resultsClosed
  /\ received' = Append(received, pending[i])
  /\ pc' = [pc EXCEPT ![i] = "exit"]
  /\ UNCHANGED <<orchVars, mu, loaded, counterVars, pending, hist, files, cpc, constVars>>

\* return; defer wg.Done()
Return(i) ==
  /\ pc[i] = "exit"
  /\ wg' = wg - 1
  /\ pc' = [pc EXCEPT ![i] = "done"]
  /\ UNCHANGED <<opc, next, resultsClosed, summaryClosed, summary, mu, loaded, counterVars,
                 pending, hist, files, consumerVars, constVars>>

(* ------------------------------ consumer ------------------------------- *)
\* for range resultsChan {} ends when the channel is closed; then <-summaryChan
DrainEnd ==
  /\ cpc = "drain"
  /\ resultsClosed
  /\ cpc' = "await"
  /\ UNCHANGED <<orchVars, mu, loaded, counterVars, pc, pending, hist, files, received, constVars>>

\* a consumer that stops receiving Results and goes on to <-summaryChan
Abandon ==
  /\ cpc = "drain"
  /\ ~resultsClosed
  /\ cpc' = "await"
  /\ UNCHANGED <<orchVars, mu, loaded, counterVars, pc, pending, hist, files, received, constVars>>

(* ------------------------------- handler ------------------------------- *)
\* longest trigger event, longest URL list of a job of the event
MaxMsgs == 2
MaxJobUrls == 1

\* a queue message: whether its content unmarshals into a ConversionJob,
\* and the job's downloadId and urls
Msg(valid, id, us) == [valid |-> valid, downloadID |-> id, urls |-> us]
BadMsg == Msg(FALSE, "", <<>>)
JobIDs == {"", "job-1"}
JobUrlLists == UNION {[1..k -> URLs] : k \in 0..MaxJobUrls}
Messages == {BadMsg} \cup {Msg(TRUE, d, us) : d \in JobIDs, us \in JobUrlLists}
Events == UNION {[1..k -> Messages] : k \in 0..MaxMsgs}

\* what NewConverterForJob returns: the error, whether a Converter came
\* back, whether os.MkdirAll was called, and the output directory
Built(err, conv, mkdir, dir) == [err |-> err, conv |-> conv, mkdir |-> mkdir, dir |-> dir]

\* mutation: the empty downloadID is not rejected
NewConverterForJobNoCheck(downloadID, mkdirOk) ==
  IF ~mkdirOk THEN Built(TRUE, FALSE, TRUE, "")
  ELSE Built(FALSE, TRUE, TRUE, "tmp/downloads/" \o downloadID)

\* mkdirOk: os.MkdirAll(outputDir, 0755) succeeds
NewConverterForJob(downloadID, mkdirOk) ==
  IF downloadID = "" THEN Built(TRUE, FALSE, FALSE, "")
  ELSE IF ~mkdirOk THEN Built(TRUE, FALSE, TRUE, "")
  ELSE Built(FALSE, TRUE, TRUE, "tmp/downloads/" \o downloadID)

\* one line of the handler's history: the outcome for a message, the
\* constructor's answer, and the Results, documents and Summary of its run
Entry(outcome, built, results, h, sum) ==
  [outcome |-> outcome, built |-> built, results |-> results, hist |-> h, summary |-> sum]
NotBuilt == Built(FALSE, FALSE, FALSE, "")
NoHistories == [i \in Workers |-> NoHistory]

\* json.Unmarshal fails: continue with the next message
HandlerSkip ==
  /\ hpc = "loop"
  /\ mi <= Len(event)
  /\ ~event[mi].valid
  /\ log' = Append(log, Entry("skipped", NotBuilt, <<>>, NoHistories, NoSummary))
  /\ mi' = mi + 1
  /\ UNCHANGED <<integration, net, urls, call, hpc, event, dirs, runMsg, orchVars, mu, loaded,
                 counterVars, pc, pending, hist, files, consumerVars>>

\* NewConverterForJob returns an error: the handler logs it and returns
HandlerReject ==
  /\ hpc = "loop"
  /\ mi <= Len(event)
  /\ event[mi].valid
  /\ \E mkdirOk \in BOOLEAN :
       LET c == NewConverterForJob(event[mi].downloadID, mkdirOk)
       IN /\ c.err
          /\ log' = Append(log, Entry("rejected", c, <<>>, NoHistories, NoSummary))
  /\ hpc' = "returned"
  /\ UNCHANGED <<integration, net, urls, call, event, mi, dirs, runMsg, orchVars, mu, loaded,
                 counterVars, pc, pending, hist, files, consumerVars>>

\* NewConverterForJob succeeds: c.Convert(job.URLs, job.Selector)
HandlerConvert ==
  /\ hpc = "loop"
  /\ mi <= Len(event)
  /\ event[mi].valid
  /\ \E mkdirOk \in BOOLEAN :
       LET c == NewConverterForJob(event[mi].downloadID, mkdirOk)
       IN /\ ~c.err
          /\ dirs' = dirs \cup {c.dir}
          /\ log' = Append(log, Entry("started", c, <<>>, NoHistories, NoSummary))
  /\ hpc' = "running"
  /\ runMsg' = mi
  /\ urls' = event[mi].urls
  /\ opc' = "spawn"
  /\ next' = 1
  /\ wg' = 0
  /\ mu' = 0
  /\ loaded' = [i \in Workers |-> NoLoad]
  /\ successCount' = 0
  /\ errorCount' = 0
  /\ failedURLs' = <<>>
  /\ pc' = [i \in Workers |-> "idle"]
  /\ pending' = [i \in Workers |-> NoResult]
  /\ hist' = NoHistories
  /\ resultsClosed' = FALSE
  /\ summaryClosed' = FALSE
  /\ cpc' = "drain"
  /\ received' = <<>>
  /\ summary' = NoSummary
  /\ UNCHANGED <<integration, net, call, event, mi, files>>

\* summary := <-summaryChan; log.Printf(...): on to the next message (the
\* orchestrator goroutine of the run has closed summaryChan and is gone)
HandlerSummary ==
  /\ hpc = "running"
  /\ cpc = "done"
  /\ opc = "done"
  /\ log' = [log EXCEPT ![Len(log)] =
               Entry("ran", log[Len(log)].built, received, hist, summary)]
  /\ mi' = mi + 1
  /\ hpc' = "loop"
  /\ UNCHANGED <<integration, net, urls, call, event, dirs, runMsg, orchVars, mu, loaded,
                 counterVars, pc, pending, hist, files, consumerVars>>

\* the range over event.Messages is over
HandlerEnd ==
  /\ hpc = "loop"
  /\ mi > Len(event)
  /\ hpc' = "returned"
  /\ UNCHANGED <<integration, net, urls, call, event, mi, dirs, log, runMsg, orchVars, mu,
                 loaded, counterVars, pc, pending, hist, files, consumerVars>>

(* --------------------------- specifications ---------------------------- *)
\* the consumer of process-job: drains, then takes the Summary
NextDrain ==
  \/ Spawn
  \/ Wait
  \/ CloseResults
  \/ SendSummary
  \/ CloseSummary
  \/ \E i \in Workers : Validate(i)
  \/ \E i \in Workers : Fetch(i)
  \/ \E i \in Workers : Meta(i)
  \/ \E i \in Workers : Write(i)
  \/ \E i \in Workers : Lock(i)
  \/ \E i \in Workers : Count(i)
  \/ \E i \in Workers : SendResult(i)
  \/ \E i \in Workers : Return(i)
  \/ DrainEnd

\* any consumer of the two channels
Next == NextDrain \/ Abandon

Spec == Init /\ [][Next]_vars

\* the same run with the scheduler's fairness: a step that stays possible is taken
LiveSpec == Init /\ [][NextDrain]_vars /\ WF_vars(NextDrain)

(* ------------------------- validator under check ----------------------- *)
InitValidator ==
  /\ integration = FALSE
  /\ net = "stable"
  /\ urls = <<>>
  /\ call \in {Call("isPublicURL", r, Verdict(FALSE, FALSE), FALSE) : r \in AllResolutions}
  /\ NoHandler
  /\ IdleState

CallIsPublicURL ==
  /\ call.fn = "isPublicURL"
  /\ ~call.done
  /\ call' = [call EXCEPT !.ret = isPublicURL(call.arg), !.done = TRUE]
  /\ UNCHANGED <<integration, net, urls, orchVars, mu, loaded, counterVars, pc, pending, hist,
                 files, consumerVars, handlerVars>>

NextValidator == CallIsPublicURL

SpecValidator == InitValidator /\ [][NextValidator]_vars

(* -------------------------- fetches under check ------------------------ *)
MiB == 1024 * 1024
\* body lengths around the cap, with the 4 MiB and 6 MiB bodies
FetchSizes == {0, 1, 4 * MiB, maxBodySize - 1, maxBodySize, maxBodySize + 1, 6 * MiB}
FetchResponses ==
  {NetError} \cup {Response(FALSE, st, n, m) : st \in Statuses, n \in FetchSizes, m \in BOOLEAN}

InitFetch ==
  /\ integration = FALSE
  /\ net = "stable"
  /\ urls = <<>>
  /\ call \in {Call(fn, resp, NoError, FALSE) : fn \in {"processURL", "metaFetch"},
                                                resp \in FetchResponses}
  /\ NoHandler
  /\ IdleState

CallProcessURL ==
  /\ call.fn = "processURL"
  /\ ~call.done
  /\ \E u \in URLs :
       call' = [call EXCEPT !.ret = processURL(u, call.arg), !.done = TRUE]
  /\ UNCHANGED <<integration, net, urls, orchVars, mu, loaded, counterVars, pc, pending, hist,
                 files, consumerVars, handlerVars>>

CallMetaFetch ==
  /\ call.fn = "metaFetch"
  /\ ~call.done
  /\ call' = [call EXCEPT !.ret = metaFetch(call.arg), !.done = TRUE]
  /\ UNCHANGED <<integration, net, urls, orchVars, mu, loaded, counterVars, pc, pending, hist,
                 files, consumerVars, handlerVars>>

NextFetch == CallProcessURL \/ CallMetaFetch

SpecFetch == InitFetch /\ [][NextFetch]_vars

(* ------------------------- filenames under check ----------------------- *)
\* <title> texts and URLs a filename is derived from
SampleTitles == {"", "   ", "Docs", "My Page", "Hello, World!", " API v2 "}
SampleURLs ==
  {"https://example.com/docs/", "https://example.com/", "https://example.com",
   "https://example.com/a/b", "https://example.com/docs/index.html",
   "https://example.com//", "https://a.example/docs/", "https://b.example/x", ""}
TitleAndURL(t, u) == [title |-> t, url |-> u]

InitFilename ==
  /\ integration = FALSE
  /\ net = "stable"
  /\ urls = <<>>
  /\ call \in {Call("getSanitizedTitle", TitleAndURL(t, u), "", FALSE) :
                 t \in SampleTitles, u \in SampleURLs}
  /\ NoHandler
  /\ IdleState

\* filename := c.getSanitizedTitle(doc, u) + ".md"
CallGetSanitizedTitle ==
  /\ call.fn = "getSanitizedTitle"
  /\ ~call.done
  /\ call' = [call EXCEPT !.ret = getSanitizedTitle(call.arg.title, call.arg.url) \o ".md",
                          !.done = TRUE]
  /\ UNCHANGED <<integration, net, urls, orchVars, mu, loaded, counterVars, pc, pending, hist,
                 files, consumerVars, handlerVars>>

NextFilename == CallGetSanitizedTitle

SpecFilename == InitFilename /\ [][NextFilename]_vars

(* -------------------------- renderer under check ----------------------- *)
InitMarkdown ==
  /\ integration = FALSE
  /\ net = "stable"
  /\ urls = <<>>
  /\ call \in {Call("htmlToMarkdown", f, "", FALSE) : f \in Fragments}
  /\ NoHandler
  /\ IdleState

\* markdownContent := c.htmlToMarkdown(content)
CallHtmlToMarkdown ==
  /\ call.fn = "htmlToMarkdown"
  /\ ~call.done
  /\ call' = [call EXCEPT !.ret = htmlToMarkdown(call.arg), !.done = TRUE]
  /\ UNCHANGED <<integration, net, urls, orchVars, mu, loaded, counterVars, pc, pending, hist,
                 files, consumerVars, handlerVars>>

NextMarkdown == CallHtmlToMarkdown

SpecMarkdown == InitMarkdown /\ [][NextMarkdown]_vars

(* ------------------------ sanitizer under check ----------------------- *)
\* longest string built from NameChars that SanitizeFilename is applied to
MaxNameLen == 2
NameChars == {"A", "z", "Q", "7", " ", "_", "-", ".", "/"}

RECURSIVE StringsUpTo(_)
StringsUpTo(n) ==
  IF n = 0 THEN {""}
  ELSE StringsUpTo(n - 1) \cup {s \o c : s \in StringsUpTo(n - 1), c \in NameChars}

SampleNames == StringsUpTo(MaxNameLen) \cup {"Hello, World!", " My  Page ", "docs.v2-FINAL"}

InitSanitize ==
  /\ integration = FALSE
  /\ net = "stable"
  /\ urls = <<>>
  /\ call \in {Call("SanitizeFilename", n, "", FALSE) : n \in SampleNames}
  /\ NoHandler
  /\ IdleState

\* return SanitizeFilename(title)
CallSanitizeFilename ==
  /\ call.fn = "SanitizeFilename"
  /\ ~call.done
  /\ call' = [call EXCEPT !.ret = SanitizeFilename(call.arg), !.done = TRUE]
  /\ UNCHANGED <<integration, net, urls, orchVars, mu, loaded, counterVars, pc, pending, hist,
                 files, consumerVars, handlerVars>>

NextSanitize == CallSanitizeFilename

SpecSanitize == InitSanitize /\ [][NextSanitize]_vars

(* ----------------------- the get-job-status handler ------------------- *)
\* what a call of extractJobID comes to: a run-time panic (index out of
\* range) or the string it returns
Extracted(panic, id) == [panic |-> panic, id |-> id]

\* parts[k] of the Go slice (indices from 0); a panic when k is out of range
extractJobID(path) ==
  LET parts == Split(Trim(path, "/"), "/")
  IN IF Len(parts) >= 4 /\ parts[3] = "jobs"
     THEN IF Len(parts) < 5 THEN Extracted(TRUE, "")
          ELSE IF parts[5] = "download" THEN Extracted(FALSE, parts[4])
          ELSE Extracted(FALSE, "")
     ELSE Extracted(FALSE, "")

\* what myHandler of get-job-status does with the path of a request
Answered(x, answer) == [panic |-> x.panic, id |-> x.id, answer |-> answer]
myHandlerStatus(path) ==
  LET x == extractJobID(path)
  IN IF x.panic THEN Answered(x, "panic")
     ELSE IF x.id = "" THEN Answered(x, "Bad Request: Missing jobID")
     ELSE Answered(x, "createPAR")

\* most segments of a request path
MaxSegs == 5
Segments == {"v1", "jobs", "j-1", "download"}
PathOf(segs) == Join([i \in 1..Len(segs) |-> "/" \o segs[i]])
SamplePaths ==
  {PathOf(segs) : segs \in UNION {[1..k -> Segments] : k \in 0..MaxSegs}}
    \cup {"/", "//", "/api/v1/jobs/j-1/download/", "api/v1/jobs/j-1", "/api/v1/jobs//download"}

InitStatus ==
  /\ integration = FALSE
  /\ net = "stable"
  /\ urls = <<>>
  /\ call \in {Call("extractJobID", p, Answered(Extracted(FALSE, ""), ""), FALSE) :
                 p \in SamplePaths}
  /\ NoHandler
  /\ IdleState

\* jobID := extractJobID(fnCtx.Path); if jobID == "" { ... Bad Request ... }
CallExtractJobID ==
  /\ call.fn = "extractJobID"
  /\ ~call.done
  /\ call' = [call EXCEPT !.ret = myHandlerStatus(call.arg), !.done = TRUE]
  /\ UNCHANGED <<integration, net, urls, orchVars, mu, loaded, counterVars, pc, pending, hist,
                 files, consumerVars, handlerVars>>

NextStatus == CallExtractJobID

SpecStatus == InitStatus /\ [][NextStatus]_vars

(* ------------------- a run in a network that changes ------------------- *)
\* one URL, the real validator, and a network that may answer a second
\* lookup differently or redirect the client
InitNet ==
  /\ integration = FALSE
  /\ net \in {"stable", "rebinding", "redirecting"}
  /\ urls \in JobUrlLists
  /\ call = NoCall
  /\ NoHandler
  /\ IdleState

SpecNet == InitNet /\ [][NextDrain]_vars

(* ----------------------- the process-job handler ----------------------- *)
\* myHandler has decoded the event; no Convert has been called yet
InitJob ==
  /\ integration = FALSE
  /\ net = "stable"
  /\ urls = <<>>
  /\ call = NoCall
  /\ hpc = "loop"
  /\ event \in Events
  /\ mi = 1
  /\ dirs = {}
  /\ log = <<>>
  /\ runMsg = 0
  /\ RunState("none")

NextJob ==
  \/ HandlerSkip
  \/ HandlerReject
  \/ HandlerConvert
  \/ HandlerSummary
  \/ HandlerEnd
  \/ NextDrain

SpecJob == InitJob /\ [][NextJob]_vars

(* ------------------------------ helpers -------------------------------- *)
Spawned == 1..Len(urls)

\* positions of the result stream holding a Result of worker i
ResultsOf(i) == {k \in 1..Len(received) : received[k].w = i}

Succeeded == {k \in 1..Len(received) : received[k].IsSuccess}
FailedResults == {k \in 1..Len(received) : ~received[k].IsSuccess}

Occurrences(seq, x) == Cardinality({k \in 1..Len(seq) : seq[k] = x})

Terminated ==
  /\ \A i \in Spawned : pc[i] = "done"
  /\ opc = "done"
  /\ resultsClosed
  /\ summaryClosed
  /\ summary.state = "delivered"
  /\ cpc = "done"

\* worker i resolved its host to at least one non-public address
ResolvedNonPublic(i) ==
  \E k \in 1..Len(hist[i].resolved.ips) :
    LET ip == hist[i].resolved.ips[k]
    IN IsLoopback(ip) \/ IsLinkLocalMulticast(ip) \/ IsLinkLocalUnicast(ip) \/ IsPrivate(ip)

Validated(i) == pc[i] \notin {"idle", "validate"}

\* worker i has settled on a failed Result
HasFailed(i) == pending[i] # NoResult /\ ~pending[i].IsSuccess

\* the workers that wrote their document to the file named fn
WritersOf(fn) ==
  {i \in Spawned : pending[i] # NoResult /\ pending[i].IsSuccess /\ pending[i].FileName = fn}

\* the workers whose write to the file named fn failed
FailedWritersOf(fn) ==
  {i \in Spawned : /\ HasFailed(i)
                   /\ pending[i].Error.kind = "write"
                   /\ FileNameFor(hist[i].title, urls[i]) = fn}

FilesOnDisk == {fn \in FileNames : files[fn] # NoContent}

\* the workers inside the section between mu.Lock() and mu.Unlock()
InCritical == {i \in Workers : pc[i] = "crit"}

\* the workers that have been through it
Counted == {i \in Spawned : pc[i] \in {"send", "exit", "done"}}

\* the GETs among the stages worker i has gone through, in order
RECURSIVE GetsAmong(_)
GetsAmong(stages) ==
  IF stages = <<>> THEN <<>>
  ELSE (IF Head(stages) \in {"content", "metadata"} THEN <<Head(stages)>> ELSE <<>>)
         \o GetsAmong(Tail(stages))

\* the messages of the event whose run the handler has seen to its end
Ran == {k \in 1..Len(log) : log[k].outcome = "ran"}

\* the successful Results of the run for message k
SuccessesOf(k) == {j \in 1..Len(log[k].results) : log[k].results[j].IsSuccess}

\* the last stage worker i has gone through ("" before the first)
LastStage(i) ==
  IF hist[i].stages = <<>> THEN "" ELSE hist[i].stages[Len(hist[i].stages)]

\* the positions at which sub occurs in s
OccursAt(s, sub) ==
  {k \in 1..(Len(s) - Len(sub) + 1) : SubSeq(s, k, k + Len(sub) - 1) = sub}

\* the anchors with an href that sit below a <p> or a heading of a fragment
NestedLinks(body) ==
  LET ds == Descendants(body)
  IN {<<p, a>> \in (1..Len(ds)) \X (1..Len(ds)) :
        /\ ds[p].tag \in RenderedTags \ {"a"}
        /\ \E c \in 1..Len(ds[p].kids) : ds[p].kids[c] = ds[a]
        /\ ds[a].tag = "a" /\ ds[a].hasHref
        /\ a > p /\ a <= p + Len(Descendants(ds[p].kids))}

(* ------------------------------- claims -------------------------------- *)

\* C1: whatever the URL list (empty, with duplicates) and the stage outcomes,
\* the Summary satisfies Successful + Failed = TotalURLs and
\* len(FailedURLs) = Failed.
C1_SummaryCountsAddUp ==
  summary.state # "none" =>
    /\ summary.TotalURLs = Len(urls)
    /\ summary.Successful + summary.Failed = summary.TotalURLs
    /\ Len(summary.FailedURLs) = summary.Failed

C1_Witness ==
  /\ summary.state = "delivered"
  /\ summary.TotalURLs = 2
  /\ urls[1] = urls[2]
  /\ summary.Successful = 1
  /\ summary.Failed = 1

\* C2: no worker ever emits two Results, every Result belongs to the entry of
\* the URL list its worker was started for, and once the result stream has
\* been drained to its close every entry of the list has exactly one Result.
C2_OneResultPerEntry ==
  /\ \A k \in 1..Len(received) :
       /\ received[k].w \in Spawned
       /\ received[k].URL = urls[received[k].w]
  /\ \A i \in Workers : Cardinality(ResultsOf(i)) <= 1
  /\ resultsClosed =>
       /\ Len(received) = Len(urls)
       /\ \A i \in Spawned : Cardinality(ResultsOf(i)) = 1

C2_Witness ==
  /\ resultsClosed
  /\ Len(urls) = 2
  /\ urls[1] = urls[2]
  /\ received[1].IsSuccess
  /\ ~received[2].IsSuccess
  /\ received[2].Error.kind = "selector"

\* C3: the Summary agrees with the Results emitted in the run: Successful is
\* the number of successful Results, Failed the number of failed ones, and
\* FailedURLs holds each URL as often as it has failed Results; when every
\* URL failed, Successful = 0 and Failed = TotalURLs.
C3_SummaryMatchesResults ==
  summary.state # "none" =>
    /\ summary.Successful = Cardinality(Succeeded)
    /\ summary.Failed = Cardinality(FailedResults)
    /\ \A u \in URLs :
         Occurrences(summary.FailedURLs, u) =
           Cardinality({k \in FailedResults : received[k].URL = u})
    /\ (Succeeded = {} => summary.Successful = 0 /\ summary.Failed = summary.TotalURLs)

C3_Witness ==
  /\ summary.state = "delivered"
  /\ summary.TotalURLs = 2
  /\ urls[1] # urls[2]
  /\ Succeeded = {}
  /\ received[1].w = 2
  /\ received[1].Error.kind = "write"
  /\ received[2].Error.kind = "ssrf"

\* C4: the Summary exists only once every worker has finished and the result
\* stream is closed, and from then on no Result is emitted.
C4_SummaryAfterWorkers ==
  /\ [](summary.state # "none" =>
          /\ resultsClosed
          /\ wg = 0
          /\ \A i \in Spawned : pc[i] = "done")
  /\ [][summary.state # "none" => received' = received]_vars

C4_Witness ==
  /\ summary.state = "delivered"
  /\ Len(urls) = 2
  /\ Len(received) = 2
  /\ received[1].w = 2

\* C5: with a consumer that drains the result stream and then takes the
\* Summary, and fair scheduling, the run ends: workers and orchestrator are
\* done, both streams are closed and the Summary has been delivered.
C5_RunTerminates == <>[]Terminated

C5_Witness ==
  /\ Terminated
  /\ Len(urls) = 2
  /\ summary.Successful = 1
  /\ summary.Failed = 1

\* C6: a consumer waiting for the Summary while Results of the run are still
\* unreceived never gets it: the orchestrator stays in wg.Wait, the result
\* stream stays open, no Summary is built, and this lasts for ever.
Starved == cpc = "await" /\ Len(received) < Len(urls)

C6_UndrainedRunDeadlocks ==
  /\ [](Starved => opc = "spawn" /\ ~resultsClosed /\ summary.state = "none")
  /\ [][Starved => Starved']_vars

C6_Witness ==
  /\ Starved
  /\ Len(urls) = 2
  /\ Len(received) = 1
  /\ \E i \in Spawned : pc[i] = "send"
  /\ ~ENABLED Next

\* C7 (as stated): a worker whose host resolved to a loopback, link-local or
\* private address settles on the SSRF failure and issues no GET.
C7_Original ==
  \A i \in Spawned :
    (Validated(i) /\ ResolvedNonPublic(i)) =>
      /\ hist[i].gets = <<>>
      /\ pending[i] = FailResult(i, urls[i], Err("ssrf", "", 0))

\* C7 (amended): in a build without the integration tag, a worker whose host
\* resolved to a loopback, link-local or private address settles on the SSRF
\* failure and issues no GET.
C7_SSRFBlockedBeforeFetch == ~integration => C7_Original

C7_Witness ==
  /\ ~integration
  /\ \E i \in Spawned :
       /\ pc[i] = "done"
       /\ ResolvedNonPublic(i)
       /\ \E j \in Spawned : hist[j].gets # <<>>
       /\ \E k \in ResultsOf(i) : received[k].Error.kind = "ssrf"

\* C8: isPublicURL accepts exactly when parsing and resolution succeed and no
\* resolved address is loopback, link-local unicast, link-local multicast or
\* private; it reports an error exactly when parsing or resolution failed.
C8_ValidatorAcceptsOnlyPublic ==
  (call.fn = "isPublicURL" /\ call.done) =>
    LET r == call.arg
        bad == \E k \in 1..Len(r.ips) :
                 \/ r.ips[k][1] = 127
                 \/ r.ips[k][1] = 10
                 \/ r.ips[k][1] = 172 /\ r.ips[k][2] \in 16..31
                 \/ r.ips[k][1] = 192 /\ r.ips[k][2] = 168
                 \/ r.ips[k][1] = 169 /\ r.ips[k][2] = 254
                 \/ r.ips[k][1] = 224 /\ r.ips[k][2] = 0 /\ r.ips[k][3] = 0
    IN /\ call.ret.err <=> (r.parseErr \/ r.lookupErr)
       /\ call.ret.ok <=> (~r.parseErr /\ ~r.lookupErr /\ ~bad)

C8_Witness ==
  /\ call.fn = "isPublicURL"
  /\ call.done
  /\ call.arg.ips = <<PublicIP, PrivateIP172>>
  /\ ~call.ret.ok
  /\ ~call.ret.err

\* C9: once a worker has failed at any stage, the run still ends with every
\* worker done, exactly one Result per entry, that worker's one Result the
\* failure it settled on, and the Summary delivered.
C9_FailureDoesNotAbort ==
  \A i \in Workers :
    HasFailed(i) ~>
      /\ i \in Spawned
      /\ Terminated
      /\ \A j \in Spawned : Cardinality(ResultsOf(j)) = 1
      /\ \A k \in ResultsOf(i) : received[k] = pending[i] /\ ~received[k].IsSuccess
      /\ Occurrences(summary.FailedURLs, urls[i]) >= 1

C9_Witness ==
  /\ Terminated
  /\ Len(urls) = 2
  /\ HasFailed(1)
  /\ pending[1].Error.kind = "validation"
  /\ pending[2].IsSuccess
  /\ received[1].w = 1

\* C10 (as stated): a GET answered with a status other than 200 makes the
\* Result a failure naming the URL and the status, and a successful Result
\* has status 200 on each of its GETs.
C10_Original ==
  \A k \in 1..Len(received) :
    LET r == received[k]
        gets == hist[r.w].gets
    IN /\ \A g \in 1..Len(gets) :
            (gets[g] # 0 /\ gets[g] # StatusOK) =>
              /\ ~r.IsSuccess
              /\ r.Error = Err("status", r.URL, gets[g])
       /\ r.IsSuccess => \A g \in 1..Len(gets) : gets[g] = StatusOK

\* C11: a job whose run identifier is empty, or whose output directory
\* cannot be created, gets an error and no Converter from the constructor;
\* the empty identifier is rejected without os.MkdirAll being called; and
\* the handler then calls Convert for no such job: the job has no worker,
\* no Result and no Summary, and the handler has returned.
C11_ConstructorErrorStartsNoRun ==
  /\ \A d \in JobIDs :
       /\ NewConverterForJob(d, FALSE).err /\ ~NewConverterForJob(d, FALSE).conv
       /\ d = "" => \A ok \in BOOLEAN :
            LET c == NewConverterForJob(d, ok) IN c.err /\ ~c.conv /\ ~c.mkdir
  /\ \A k \in 1..Len(log) :
       LET m == event[k]
           e == log[k]
       IN /\ (m.valid /\ m.downloadID = "") => (e.outcome = "rejected" /\ ~e.built.mkdir)
          /\ e.outcome = "rejected" =>
               /\ e.built.err /\ ~e.built.conv
               /\ runMsg # k
               /\ e.results = <<>> /\ e.summary = NoSummary
               /\ k = Len(log) /\ hpc = "returned"
               /\ "tmp/downloads/" \o m.downloadID \notin dirs \/ runMsg \in 1..(k - 1)
          /\ e.outcome \in {"started", "ran"} =>
               /\ m.valid /\ m.downloadID # ""
               /\ ~e.built.err /\ e.built.conv /\ e.built.dir \in dirs

\* a run completed for the first job, then the second job has an empty
\* identifier and is rejected with no directory created
C11_Witness ==
  /\ Len(log) = 2
  /\ log[1].outcome = "ran"
  /\ log[1].summary.Successful = 1
  /\ event[2].valid /\ event[2].downloadID = ""
  /\ log[2].outcome = "rejected"
  /\ ~log[2].built.mkdir
  /\ hpc = "returned"

\* C12: in the content fetch and in the metadata fetch alike, a body longer
\* than 5*1024*1024 bytes ends in an error (so the worker's Result is a
\* failure), and a body of at most that length never ends in the error of
\* reading the body: 6 MiB fails, 4 MiB and exactly the cap go through.
C12_BodyCapOnBothFetches ==
  (call.fn \in {"processURL", "metaFetch"} /\ call.done) =>
    LET resp == call.arg
        sizeKinds == {"read", "metaparse"}
        clean == ~resp.err /\ resp.status = StatusOK /\ resp.match
    IN /\ resp.size > 5242880 => call.ret # NoError
       /\ (~resp.err /\ resp.size > 5242880 /\ (call.fn = "metaFetch" \/ resp.status = StatusOK))
            => call.ret.kind \in sizeKinds
       /\ resp.size <= 5242880 => call.ret.kind \notin sizeKinds
       /\ (clean /\ resp.size \in {4194304, 5242880}) => call.ret = NoError
       /\ resp.size = 6291456 => call.ret # NoError

\* the metadata fetch of a 200 answer one byte over the cap has failed on
\* its body
C12_Witness ==
  /\ call.fn = "metaFetch"
  /\ call.done
  /\ call.arg = Response(FALSE, StatusOK, maxBodySize + 1, TRUE)
  /\ call.ret.kind = "metaparse"

\* C13 (as stated): for a document with no title or an empty one, the
\* filename comes from the URL: https://example.com/docs/, whose last piece
\* is empty, gives docs.md, and https://example.com/, which has no path,
\* gives untitled.md.
C13_Original ==
  (call.fn = "getSanitizedTitle" /\ call.done /\ TrimSpace(call.arg.title) = "") =>
    /\ call.arg.url = "https://example.com/docs/" => call.ret = "docs.md"
    /\ call.arg.url = "https://example.com/" => call.ret = "untitled.md"

\* C14 (as stated): an anchor with an href nested in a paragraph or heading
\* is rendered as [text](href) where it stands in that element's text, and
\* its text is emitted once; <h1>Title</h1><p>Body <a href="https://x">link
\* </a></p> gives the heading line, a blank line, and the paragraph with
\* the link inline.
C14_Original ==
  (call.fn = "htmlToMarkdown" /\ call.done) =>
    /\ call.arg = <<El("h1", <<Txt("Title")>>), El("p", <<Txt("Body "), LinkX>>)>>
         => call.ret = "# Title\n\nBody [link](https://x)"
    /\ NestedLinks(call.arg) # {} =>
         /\ OccursAt(call.ret, "Body [link](https://x)") # {}
              \/ OccursAt(call.ret, "[link](https://x) more") # {}
         /\ Cardinality(OccursAt(call.ret, "link")) = Cardinality(NestedLinks(call.arg))
              + Cardinality({k \in 1..Len(call.arg) : call.arg[k] = LinkX})

\* C15: whatever fragment is rendered, text with blank lines of its own
\* included, the Markdown body has no three newlines in a row and neither
\* starts nor ends with white space.
C15_NoTripleNewlineAndTrimmed ==
  (call.fn = "htmlToMarkdown" /\ call.done) =>
    /\ OccursAt(call.ret, "\n\n\n") = {}
    /\ call.ret # "" => ~IsSpace(Ch(call.ret, 1)) /\ ~IsSpace(Ch(call.ret, Len(call.ret)))

\* a paragraph whose text holds three newlines in a row, after a bare text
\* node that ends in white space
C15_Witness ==
  /\ call.fn = "htmlToMarkdown"
  /\ call.done
  /\ call.arg = <<El("p", <<Txt("a\n\n\nb")>>), Txt("text\n\n\n\ntail ")>>
  /\ call.ret = "a\n\nb"

\* C16: two workers of a run whose documents derive the same filename both
\* write to that path and both succeed: a successful write puts the
\* writer's document in the file whatever was there, the directory holds
\* one file of that name with the document of one of the writers, every
\* writer is counted in Successful and has its Result emitted, so there
\* can be fewer files than successes.
C16_CollisionLastWriterWins ==
  /\ [][\A i \in Workers :
          (pc[i] = "write" /\ pc'[i] = "lock" /\ pending'[i].IsSuccess) =>
            files'[pending'[i].FileName] = Doc(urls[i], i)]_vars
  /\ [](\A fn \in FileNames :
          /\ (WritersOf(fn) # {} /\ FailedWritersOf(fn) = {}) =>
               \E i \in WritersOf(fn) : files[fn] = pending[i].Content
          /\ summary.state # "none" =>
               /\ summary.Successful >= Cardinality(WritersOf(fn))
               /\ \A i \in WritersOf(fn) :
                    Len(received) = Len(urls) => \E k \in ResultsOf(i) : received[k].IsSuccess)
  /\ [](summary.state # "none" => Cardinality(FilesOnDisk) <= summary.Successful
                                     + Cardinality(UNION {FailedWritersOf(fn) : fn \in FileNames}))

\* two different URLs, the second document titled "Docs": both files are
\* docs.md, both workers succeeded, the first worker wrote last
C16_Witness ==
  /\ Terminated
  /\ Len(urls) = 2
  /\ urls[1] # urls[2]
  /\ pending[1].IsSuccess /\ pending[2].IsSuccess
  /\ pending[1].FileName = "docs.md" /\ pending[2].FileName = "docs.md"
  /\ summary.Successful = 2
  /\ Len(received) = 2
  /\ FilesOnDisk = {"docs.md"}
  /\ files["docs.md"] = Doc(urls[1], 1)

\* C18: every emitted Result has the shape of its outcome: a failure has
\* an error and neither FileName nor Content; a success has no error, a
\* FileName ending in .md and the bytes of its document; none is a success
\* with an error.
C18_ResultWellFormed ==
  \A k \in 1..Len(received) :
    LET r == received[k]
    IN /\ ~r.IsSuccess =>
            /\ r.Error # NoError /\ r.Error.kind # ""
            /\ r.FileName = ""
            /\ r.Content = NoContent
       /\ r.IsSuccess =>
            /\ r.Error = NoError
            /\ HasSuffix(r.FileName, ".md")
            /\ r.Content # NoContent /\ r.Content = Doc(r.URL, r.w)
       /\ ~(r.IsSuccess /\ r.Error # NoError)

\* a success and a failure of the metadata fetch have both been emitted
C18_Witness ==
  /\ Len(received) = 2
  /\ received[1].IsSuccess
  /\ received[1].FileName = "x.md"
  /\ ~received[2].IsSuccess
  /\ received[2].Error.kind = "metafetch"

\* C19: at most one worker is between mu.Lock() and mu.Unlock(), and it
\* holds mu; successCount, errorCount and failedURLs change only in a step
\* of the worker holding mu; the Summary is built from them only when every
\* worker is done; and no update is lost: the counters always account for
\* exactly the workers that have been through the section.
C19_CountersRaceFree ==
  /\ [](/\ Cardinality(InCritical) <= 1
        /\ \A i \in InCritical : mu = i
        /\ mu # 0 => InCritical = {mu})
  /\ [][counterVars' # counterVars =>
          \E i \in Spawned : mu = i /\ pc[i] = "crit" /\ pc'[i] = "send" /\ mu' = 0]_vars
  /\ [](summary.state # "none" =>
          /\ \A i \in Spawned : pc[i] = "done"
          /\ mu = 0
          /\ summary.Successful = successCount
          /\ summary.Failed = errorCount
          /\ summary.FailedURLs = failedURLs)
  /\ [](/\ successCount = Cardinality({i \in Counted : pending[i].IsSuccess})
        /\ errorCount = Cardinality({i \in Counted : ~pending[i].IsSuccess})
        /\ Len(failedURLs) = errorCount
        /\ \A u \in URLs : Occurrences(failedURLs, u) =
             Cardinality({i \in Counted : ~pending[i].IsSuccess /\ urls[i] = u}))

\* worker 1 holds the lock with the count worker 2 left, while worker 2,
\* which failed on the same URL, is past the section
C19_Witness ==
  /\ Len(urls) = 2
  /\ urls[1] = urls[2]
  /\ pc[1] = "crit"
  /\ mu = 1
  /\ HasFailed(1) /\ HasFailed(2)
  /\ pc[2] = "send"
  /\ errorCount = 1
  /\ loaded[1] = Load(0, 1, <<urls[2]>>)

\* C20: a worker issues at most two GETs, the content fetch and then the
\* metadata fetch, each once; the metadata GET is issued only by a worker
\* that has validated its URL, got its content with status 200 and has not
\* failed; and a worker that has failed at any stage issues no GET.
C20_AtMostTwoGetsNoRetry ==
  /\ [](\A i \in Spawned :
          /\ Len(hist[i].gets) <= 2
          /\ GetsAmong(hist[i].stages) = SubSeq(<<"content", "metadata">>, 1, Len(hist[i].gets))
          /\ hist[i].gets # <<>> => hist[i].stages[1] = "validate" /\ Validator(hist[i].resolved).ok
          /\ Len(hist[i].gets) = 2 =>
               /\ hist[i].gets[1] = StatusOK
               /\ SubSeq(hist[i].stages, 1, 3) = <<"validate", "content", "metadata">>)
  /\ [][\A i \in Workers :
          hist'[i].gets # hist[i].gets =>
            /\ pending[i] = NoResult
            /\ Len(hist'[i].gets) = Len(hist[i].gets) + 1
            /\ \/ pc[i] = "fetch" /\ hist[i].gets = <<>>
               \/ pc[i] = "meta" /\ Len(hist[i].gets) = 1]_vars
  /\ [][\A i \in Workers : HasFailed(i) => hist'[i].gets = hist[i].gets]_vars

\* worker 1 failed on its content GET (404) and is done after that one GET;
\* worker 2 made both GETs, the second answered 404, and succeeded
C20_Witness ==
  /\ Terminated
  /\ Len(urls) = 2
  /\ hist[1].gets = <<404>>
  /\ HasFailed(1)
  /\ hist[2].gets = <<StatusOK, 404>>
  /\ hist[2].stages = <<"validate", "content", "metadata", "write">>
  /\ pending[2].IsSuccess

C21_SanitizeFilenameClassAndIdempotent ==
  (call.fn = "SanitizeFilename" /\ call.done) =>
    LET in == call.arg
        out == call.ret
        Image(c) ==
          IF c = " " THEN "_"
          ELSE IF \E k \in 1..26 : Ch("ABCDEFGHIJKLMNOPQRSTUVWXYZ", k) = c
               THEN Ch("abcdefghijklmnopqrstuvwxyz",
                       CHOOSE k \in 1..26 : Ch("ABCDEFGHIJKLMNOPQRSTUVWXYZ", k) = c)
          ELSE IF \E k \in 1..37 : Ch("abcdefghijklmnopqrstuvwxyz0123456789_", k) = c
               THEN c
          ELSE ""
    IN /\ out = Join([i \in 1..Len(in) |-> Image(Ch(in, i))])
       /\ \A i \in 1..Len(out) :
            \E k \in 1..37 : Ch("abcdefghijklmnopqrstuvwxyz0123456789_", k) = Ch(out, i)
       /\ SanitizeFilename(out) = out

\* upper case, spaces and punctuation in one input
C21_Witness ==
  /\ call.fn = "SanitizeFilename"
  /\ call.done
  /\ call.arg = "docs.v2-FINAL"
  /\ call.ret = "docsv2final"

\* C22 (as stated): extractJobID returns the fourth segment of a path of
\* the form /<a>/<b>/jobs/<id>/download; for every other path, those of
\* exactly four segments such as /api/v1/jobs/<id> included, it returns ""
\* without failing, and the handler answers "Bad Request: Missing jobID".
C22_Original ==
  (call.fn = "extractJobID" /\ call.done) =>
    LET segs == Split(Trim(call.arg, "/"), "/")
        download == Len(segs) = 5 /\ segs[3] = "jobs" /\ segs[5] = "download"
    IN /\ ~call.ret.panic
       /\ download => call.ret.id = segs[4]
       /\ ~download =>
            /\ call.ret.id = ""
            /\ call.ret.answer = "Bad Request: Missing jobID"

\* C23 (as stated): when the handler has returned, every message of the
\* event that holds a valid job with a run identifier has been converted,
\* in the order of the event, whatever messages before it could not be
\* processed (content that is no job, a job with an empty identifier, a
\* job whose directory could not be created); the only valid job without
\* a run is one whose own directory could not be created.
C23_Original ==
  hpc = "returned" =>
    \A k \in 1..Len(event) :
      (event[k].valid /\ event[k].downloadID # "") =>
        /\ k <= Len(log)
        /\ \/ log[k].outcome = "ran"
           \/ log[k].outcome = "rejected" /\ log[k].built.mkdir

\* C24 (as stated): every address a GET of a worker connects to is an
\* address the validator looked up and accepted for the worker's URL, and
\* none is loopback, link-local or private, also when the name resolves
\* differently at fetch time or the server redirects.
C24_Original ==
  \A i \in Spawned :
    \A k \in 1..Len(hist[i].dials) :
      LET ip == hist[i].dials[k]
      IN /\ ~(IsLoopback(ip) \/ IsLinkLocalUnicast(ip) \/ IsLinkLocalMulticast(ip) \/ IsPrivate(ip))
         /\ isPublicURL(hist[i].resolved).ok
         /\ \E j \in 1..Len(hist[i].resolved.ips) : hist[i].resolved.ips[j] = ip

\* C25: only the write step of a worker changes the output directory, so a
\* worker that fails at validation, a fetch, parsing, the selector or
\* serialization leaves it as it was; a worker settles on success only in
\* its write step, with the file holding exactly the Content of its Result;
\* a settled Result never changes afterwards (no step after the write can
\* fail); and only a worker that has so written is counted successful.
C25_WriteIsLastFallibleStep ==
  /\ [][\A i \in Workers : (pc'[i] # pc[i] /\ pc[i] # "write") => files' = files]_vars
  /\ [][files' # files => \E i \in Spawned : pc[i] = "write" /\ pc'[i] = "lock"]_vars
  /\ [](\A i \in Spawned :
          /\ (HasFailed(i) /\ pending[i].Error.kind # "write") => LastStage(i) # "write"
          /\ (pending[i] # NoResult /\ pending[i].IsSuccess) =>
               /\ LastStage(i) = "write"
               /\ pending[i].Content = Doc(urls[i], i)
          /\ pc[i] \in {"lock", "crit", "send", "exit", "done"} <=> pending[i] # NoResult)
  /\ [][\A i \in Workers :
          /\ (pending[i] = NoResult /\ pending'[i] # NoResult /\ pending'[i].IsSuccess) =>
               /\ pc[i] = "write"
               /\ files'[pending'[i].FileName] = pending'[i].Content
          /\ pending[i] # NoResult => pending'[i] = pending[i]]_vars
  /\ [][successCount' # successCount =>
          \E i \in Spawned : /\ pc[i] = "crit" /\ pc'[i] = "send"
                            /\ pending[i].IsSuccess
                            /\ LastStage(i) = "write"
                            /\ successCount' = successCount + 1]_vars

\* worker 1 failed at serialization, worker 2 wrote its file and was
\* counted: the directory holds the file of worker 2 only
C25_Witness ==
  /\ Terminated
  /\ Len(urls) = 2
  /\ urls[1] # urls[2]
  /\ HasFailed(1)
  /\ pending[1].Error.kind = "yaml"
  /\ pending[2].IsSuccess
  /\ FilesOnDisk = {pending[2].FileName}
  /\ files[pending[2].FileName] = pending[2].Content
  /\ summary.Successful = 1

====
